---- MODULE Spec2Model ----
(***************************************************************************)
(* Model of the dindexer indexing pipeline: run() of src/main.rs.          *)
(* One run reads the ICX claim log, opens the store, walks the heights     *)
(* start_height..=iter_end_height (fetch hash, fetch block, write the      *)
(* block row, classify and persist every transaction and its graph rows,   *)
(* checkpoint every 10000 heights, poll the quit flag), commits, builds    *)
(* the secondary indexes and returns.                                      *)
(*                                                                         *)
(* Option values are sequences: <<>> is None, <<v>> is Some(v).  A string  *)
(* column that holds serialized JSON is <<>> for the empty string and      *)
(* <<v>> for serde_json::to_string(v).                                     *)
(***************************************************************************)
EXTENDS Integers, Sequences, FiniteSets, TLC

\* ------------------------------------------------------------------ bounds
\* number of heights of the chain that a run of Spec can visit
MaxSpan == 3
\* number of transactions in the blocks the node serves
MaxChainTx == 2

\* the checkpoint period of the height loop
CheckpointEvery == 10000

None == <<>>
Some(v) == <<v>>
IsSome(o) == Len(o) = 1
Unwrap(o) == o[1]

Min(a, b) == IF a < b THEN a ELSE b

RECURSIVE SeqToSet(_)
SeqToSet(s) == IF s = <<>> THEN {} ELSE {Head(s)} \cup SeqToSet(Tail(s))

\* ------------------------------------------------------------- the chain
\* A transaction id stands for the hash string of the transaction at
\* position i of the block at height h.
Txid(h, i) == <<h, i>>
HashOf(h) == <<"hash", h>>

\* The transaction shapes the chain is built from.  "ref" spends output 0
\* of the first transaction of the previous block.
Shapes == {"cb", "utxo", "swap", "badswap", "claim", "other"}

VinOf(shape, h) ==
    IF shape = "cb" THEN <<>>
    ELSE <<[txid |-> Txid(h - 1, 1), vout |-> 0]>>

VoutOf(shape) ==
    CASE shape = "cb"    -> <<[addr |-> "A", value |-> 5], [addr |-> "x", value |-> 0]>>
      [] shape = "claim" -> <<[addr |-> "A", value |-> 5]>>
      [] OTHER           -> <<[addr |-> "B", value |-> 5]>>

\* vm.msg: the addresses that occur in the payload text, and the swap keys
\* (None when the key is missing or of another JSON type).
VmOf(shape) ==
    CASE shape = "swap" ->
           Some([txtype |-> "PoolSwap",
                 msg |-> [addrs |-> <<"A", "C">>, fromToken |-> Some("0"),
                          toToken |-> Some("7"), fromAmount |-> Some(1)]])
      [] shape = "badswap" ->
           Some([txtype |-> "PoolSwap",
                 msg |-> [addrs |-> <<"A">>, fromToken |-> None,
                          toToken |-> Some("1"), fromAmount |-> Some(1)]])
      [] shape = "claim" ->
           Some([txtype |-> "ICXClaimDFCHTLC",
                 msg |-> [addrs |-> <<"A">>, fromToken |-> None,
                          toToken |-> None, fromAmount |-> None]])
      [] shape = "other" ->
           Some([txtype |-> "FutureSwap",
                 msg |-> [addrs |-> <<"A", "B">>, fromToken |-> None,
                          toToken |-> None, fromAmount |-> None]])
      [] OTHER -> None

MkTx(shape, h, i) ==
    [txid |-> Txid(h, i), vin |-> VinOf(shape, h), vout |-> VoutOf(shape),
     vm |-> VmOf(shape)]

\* the decoded block of a height whose transactions have the given shapes
MkBlock(h, shapes) ==
    [height |-> h, hash |-> HashOf(h),
     tx |-> [i \in 1..Len(shapes) |-> MkTx(shapes[i], h, i)]]

\* all sequences over S of length n
RECURSIVE SeqsOfLen(_, _)
SeqsOfLen(S, n) ==
    IF n = 0 THEN {<<>>}
    ELSE {<<x>> \o s : x \in S, s \in SeqsOfLen(S, n - 1)}

\* all sequences over S of length at most n
SeqsUpTo(S, n) == UNION {SeqsOfLen(S, m) : m \in 0..n}

\* the blocks (sequences of shapes) of at most budget transactions
BlocksUpTo(budget) == UNION {SeqsOfLen(Shapes, n) : n \in 0..budget}

RECURSIVE TxCount(_)
TxCount(blocks) == IF blocks = <<>> THEN 0 ELSE Len(Head(blocks)) + TxCount(Tail(blocks))

\* ------------------------------------------------------ per-transaction
\* TxType::from(&str): the opcodes with a variant of their own, any other
\* opcode is carried in the string variant.
KnownOpcodes == {"PoolSwap", "CompositeSwap", "ICXClaimDFCHTLC"}
TxTypeFrom(s) ==
    IF s \in KnownOpcodes THEN [kind |-> s, str |-> ""]
    ELSE [kind |-> "Other", str |-> s]
TxTypeCoinbase == [kind |-> "Coinbase", str |-> ""]
TxTypeUnknown == [kind |-> "Unknown", str |-> ""]
TxTypeUtxo == [kind |-> "Utxo", str |-> ""]
\* TxType::to_string
TxTypeToString(t) == IF t.kind = "Other" THEN t.str ELSE t.kind

\* dfiutils::get_txin_addr_val_list: each input that references an output
\* of a transaction row visible through the connection contributes that
\* output's (address, value); any other input contributes nothing.
RECURSIVE TxInAddrs(_, _)
TxInAddrs(vin, rows) ==
    IF vin = <<>> THEN <<>>
    ELSE LET in == Head(vin)
             hit == {r \in rows : r.txid = in.txid /\ in.vout < Len(r.tx.vout)}
         IN  (IF hit = {} THEN <<>>
              ELSE LET r == CHOOSE r \in hit : TRUE
                   IN  <<r.tx.vout[in.vout + 1]>>)
             \o TxInAddrs(Tail(vin), rows)

\* dfiutils::get_txout_addr_val_list
TxOutAddrs(tx) == [i \in 1..Len(tx.vout) |-> tx.vout[i]]

\* tx_out: the outputs other than the coinbase marker "x", collected into
\* a map from address to value (a later pair replaces an earlier one)
RECURSIVE CollectMap(_, _)
CollectMap(pairs, acc) ==
    IF pairs = <<>> THEN acc
    ELSE LET p == Head(pairs)
             next == IF p.addr = "x" THEN acc
                     ELSE [a \in DOMAIN acc \cup {p.addr} |->
                              IF a = p.addr THEN p.value ELSE acc[a]]
         IN  CollectMap(Tail(pairs), next)
TxOutMap(tx_out_addrs) == CollectMap(tx_out_addrs, <<>>)

\* dfiutils::extract_dfi_addresses: the distinct addresses of the payload
\* text, in order of first appearance
RECURSIVE Distinct(_, _)
Distinct(s, seen) ==
    IF s = <<>> THEN <<>>
    ELSE IF Head(s) \in seen THEN Distinct(Tail(s), seen)
         ELSE <<Head(s)>> \o Distinct(Tail(s), seen \cup {Head(s)})
ExtractDfiAddresses(msg) == Distinct(msg.addrs, {})

\* dfiutils::token_id_to_symbol_maybe: known ids map to their symbol, any
\* other id passes through
TokenIdToSymbolMaybe(id) ==
    CASE id = "0" -> "DFI"
      [] id = "1" -> "ETH"
      [] id = "2" -> "BTC"
      [] OTHER    -> id

\* format!("{:.9}", amt) of a whole amount
FormatAmt(amt) == <<amt, "000000000">>

\* tx_type after lines 112..123: the VM opcode's type, replaced by Coinbase
\* when no input address was resolved
ClassifyVmFirst(tx, tx_in_addrs) ==
    IF IsSome(tx.vm) THEN Some(TxTypeFrom(Unwrap(tx.vm).txtype))
    ELSE IF tx_in_addrs = <<>> THEN Some(TxTypeCoinbase) ELSE None
Classify(tx, tx_in_addrs) ==
    LET tx_type == IF IsSome(tx.vm) THEN Some(TxTypeFrom(Unwrap(tx.vm).txtype))
                   ELSE None
    IN  IF tx_in_addrs = <<>> THEN Some(TxTypeCoinbase) ELSE tx_type

\* lines 125..131
DvmAddrs(tx, tx_type) ==
    IF tx_type \in {Some(TxTypeCoinbase), Some(TxTypeUnknown), Some(TxTypeUtxo), None}
    THEN <<>>
    ELSE ExtractDfiAddresses(Unwrap(tx.vm).msg)

\* lines 141..149: the swap descriptor of a PoolSwap; "err" is the error
\* that ok_or_err()? returns from run()
SwapOf(tx, tx_type) ==
    IF tx_type = Some(TxTypeFrom("PoolSwap"))
    THEN IF ~IsSome(tx.vm) THEN [err |-> TRUE]
         ELSE LET m == Unwrap(tx.vm).msg
              IN  IF ~IsSome(m.fromToken) \/ ~IsSome(m.toToken) \/ ~IsSome(m.fromAmount)
                  THEN [err |-> TRUE]
                  ELSE [err |-> FALSE,
                        swap_from |-> Some(TokenIdToSymbolMaybe(Unwrap(m.fromToken))),
                        swap_to |-> Some(TokenIdToSymbolMaybe(Unwrap(m.toToken))),
                        swap_amt |-> FormatAmt(Unwrap(m.fromAmount))]
    ELSE [err |-> FALSE, swap_from |-> <<>>, swap_to |-> <<>>, swap_amt |-> <<>>]

\* the claim record joined on the txid alone
IcxOfAnyType(tx, tx_type, map) ==
    IF tx.txid \in DOMAIN map
    THEN LET d == map[tx.txid]
         IN  [icx_claim_data |-> Some([order_tx |-> d.order_tx, claim_tx |-> d.claim_tx,
                                       offer_tx |-> d.offer_tx, dfchtlc_tx |-> d.dfchtlc_tx]),
              icx_addr |-> Some(d.address), icx_amt |-> Some(d.amount)]
    ELSE [icx_claim_data |-> None, icx_addr |-> <<>>, icx_amt |-> <<>>]

\* lines 150..162: the claim record joined from icx_data_map
IcxOf(tx, tx_type, map) ==
    IF tx_type = Some(TxTypeFrom("ICXClaimDFCHTLC")) /\ tx.txid \in DOMAIN map
    THEN LET d == map[tx.txid]
         IN  [icx_claim_data |-> Some([order_tx |-> d.order_tx, claim_tx |-> d.claim_tx,
                                       offer_tx |-> d.offer_tx, dfchtlc_tx |-> d.dfchtlc_tx]),
              icx_addr |-> Some(d.address), icx_amt |-> Some(d.amount)]
    ELSE [icx_claim_data |-> None, icx_addr |-> <<>>, icx_amt |-> <<>>]

\* line 168
TxTypeStrUtxo(tx_type) ==
    IF IsSome(tx_type) THEN TxTypeToString(Unwrap(tx_type)) ELSE TxTypeToString(TxTypeUtxo)
TxTypeStr(tx_type) ==
    IF IsSome(tx_type) THEN TxTypeToString(Unwrap(tx_type))
    ELSE TxTypeToString(TxTypeUnknown)

\* lines 139..149: whether the swap extraction returns an error from run()
TxErr(tx, rows) == SwapOf(tx, Classify(tx, TxInAddrs(tx.vin, rows))).err

\* lines 109..205: the row of the transactions table
TxRow(tx, h, rows, map) ==
    LET tx_in_addrs == TxInAddrs(tx.vin, rows)
        tx_out_addrs == TxOutAddrs(tx)
        tx_type == Classify(tx, tx_in_addrs)
        dvm_addrs == DvmAddrs(tx, tx_type)
        swap == SwapOf(tx, tx_type)
        icx == IcxOf(tx, tx_type, map)
    IN  [txid |-> tx.txid, height |-> h,
         tx_type |-> TxTypeStr(tx_type),
         tx_in |-> IF tx_in_addrs = <<>> THEN <<>> ELSE Some(tx_in_addrs),
         tx_out |-> IF tx_out_addrs = <<>> THEN <<>> ELSE Some(TxOutMap(tx_out_addrs)),
         dvm_addrs |-> IF dvm_addrs = <<>> THEN <<>> ELSE Some(dvm_addrs),
         tx |-> tx,
         icx_claim_data |-> icx.icx_claim_data,
         icx_addr |-> icx.icx_addr, icx_amt |-> icx.icx_amt,
         swap_from |-> swap.swap_from, swap_to |-> swap.swap_to,
         swap_amt |-> swap.swap_amt]

\* ---------------------------------------------------------------- graph
AddrsOf(pairs) == [i \in 1..Len(pairs) |-> pairs[i].addr]

\* the sequence of <<a, b>> for a in outer (outer loop), b in inner
RECURSIVE Pairs(_, _)
Pairs(outer, inner) ==
    IF outer = <<>> THEN <<>>
    ELSE [j \in 1..Len(inner) |-> <<Head(outer), inner[j]>>] \o Pairs(Tail(outer), inner)

RECURSIVE KeepIn(_, _)
KeepIn(s, S) ==
    IF s = <<>> THEN <<>>
    ELSE (IF Head(s) \in S THEN <<Head(s)>> ELSE <<>>) \o KeepIn(Tail(s), S)
RECURSIVE KeepNotIn(_, _)
KeepNotIn(s, S) ==
    IF s = <<>> THEN <<>>
    ELSE (IF Head(s) \in S THEN <<>> ELSE <<Head(s)>>) \o KeepNotIn(Tail(s), S)

\* lines 225..230: changeset.insert(k, 0) for every output other than "x"
\* and every input
RECURSIVE Seed(_, _, _)
Seed(cs, txid, pairs) ==
    IF pairs = <<>> THEN cs
    ELSE LET k == <<Head(pairs)[2], txid, Head(pairs)[1]>>
         IN  Seed([x \in DOMAIN cs \cup {k} |-> IF x = k THEN 0 ELSE cs[x]],
                  txid, Tail(pairs))

\* lines 236..247 and 259..266: a key at level 0 becomes 2, a missing key
\* is inserted at 1, any other key is left alone; mod reports a change
UpsertElseInsert(cs, k) ==
    IF k \in DOMAIN cs /\ cs[k] = 0
    THEN [cs |-> [cs EXCEPT ![k] = 2], mod |-> TRUE]
    ELSE [cs |-> [x \in DOMAIN cs \cup {k} |-> IF x = k THEN 1 ELSE cs[x]], mod |-> TRUE]
Upsert(cs, k) ==
    IF k \in DOMAIN cs
    THEN IF cs[k] = 0 THEN [cs |-> [cs EXCEPT ![k] = 2], mod |-> TRUE]
         ELSE [cs |-> cs, mod |-> FALSE]
    ELSE [cs |-> [x \in DOMAIN cs \cup {k} |-> IF x = k THEN 1 ELSE cs[x]], mod |-> TRUE]

\* lines 232..249: key [out_addr, txid, in_addr] for out in tx_out_dvm_addrs
\* and in in tx_in_dvm_addrs
RECURSIVE VmPairInOut(_, _, _)
VmPairInOut(st, txid, pairs) ==
    IF pairs = <<>> THEN st
    ELSE LET u == Upsert(st.cs, <<Head(pairs)[2], txid, Head(pairs)[1]>>)
         IN  VmPairInOut([cs |-> u.cs, dmod |-> st.dmod \/ u.mod], txid, Tail(pairs))
RECURSIVE VmPair(_, _, _)
VmPair(st, txid, pairs) ==
    IF pairs = <<>> THEN st
    ELSE LET u == Upsert(st.cs, <<Head(pairs)[1], txid, Head(pairs)[2]>>)
         IN  VmPair([cs |-> u.cs, dmod |-> st.dmod \/ u.mod], txid, Tail(pairs))

\* lines 251..269: key [in_addr, txid, out_addr] for in in tx_in_addrs and
\* out in tx_in_dvm_addrs
RECURSIVE Fallback(_, _, _)
Fallback(cs, txid, pairs) ==
    IF pairs = <<>> THEN cs
    ELSE Fallback(Upsert(cs, <<Head(pairs)[1], txid, Head(pairs)[2]>>).cs, txid, Tail(pairs))

\* line 251: the test of the fallback
RunsFallbackAlways(dmod, dvm_addrs) == dvm_addrs # <<>>
RunsFallback(dmod, dvm_addrs) == ~dmod /\ dvm_addrs # <<>>

\* lines 217..269: the changeset of one transaction
Changeset(txid, tx_in_addrs, tx_out_addrs, dvm_addrs) ==
    LET ins == AddrsOf(tx_in_addrs)
        outs == KeepNotIn(AddrsOf(tx_out_addrs), {"x"})
        tx_in_dvm_addrs == KeepIn(dvm_addrs, SeqToSet(ins))
        tx_out_dvm_addrs == KeepNotIn(dvm_addrs, SeqToSet(ins))
        seeded == Seed(<<>>, txid, Pairs(outs, ins))
        paired == VmPair([cs |-> seeded, dmod |-> FALSE], txid,
                         Pairs(tx_out_dvm_addrs, tx_in_dvm_addrs))
    IN  IF RunsFallback(paired.dmod, dvm_addrs)
        THEN Fallback(paired.cs, txid, Pairs(ins, tx_in_dvm_addrs))
        ELSE paired.cs

\* lines 271..273: one row of the graph table for every entry of the
\* changeset
RowsOf(cs) ==
    {[in_addr |-> k[1], txid |-> k[2], out_addr |-> k[3], v |-> cs[k]] : k \in DOMAIN cs}

\* the rows of the graph table of one transaction
GraphRows(tx, rows) ==
    LET tx_in_addrs == TxInAddrs(tx.vin, rows)
        tx_type == Classify(tx, tx_in_addrs)
        cs == Changeset(tx.txid, tx_in_addrs, TxOutAddrs(tx), DvmAddrs(tx, tx_type))
    IN  RowsOf(cs)

\* ------------------------------------------------------------ the state
VARIABLES
    args,           \* start_height, end_height, enable_graph_table, the claim log
    chain,          \* the node: the tip, and the blocks it has served from chain.base on
    pc,             \* position of run()
    quit,           \* the flag SIGINT sets
    icx_data_map,   \* claim_tx -> IcxLogData
    line_no,        \* the next line of the claim log
    iter_end_height,
    height,         \* the loop variable
    err,            \* the fetch error kept for the end of run()
    hash,           \* Some(hash) of the block being fetched
    block,          \* Some(block) being processed
    txi,            \* position in block.tx
    store,          \* the committed rows: blocks, txs, graph, and the indexes
    open,           \* the rows of the open write transaction
    tx_open,        \* the number of open write transactions
    idx,            \* position in the index factory's list
    result,         \* what run() returned
    sig_at,         \* where run() was when SIGINT first arrived
    sig_indexing,   \* a SIGINT arrived while the indexes were being built
    loop_exit,      \* how the height loop ended
    n_written,      \* block rows written by this run
    last_written,   \* height of the last block row written by this run
    prior,          \* Some(start height) of the terminated run this one resumes
    gi              \* the graph inference of one transaction, step by step

vars == <<args, chain, pc, quit, icx_data_map, line_no, iter_end_height, height, err,
          hash, block, txi, store, open, tx_open, idx, result, sig_at, sig_indexing,
          loop_exit, n_written, last_written, prior, gi>>

env == <<args, chain, prior>>
loopv == <<height, hash, block, txi>>
ghost == <<loop_exit, n_written, last_written>>
sigv == <<quit, sig_at, sig_indexing>>

NoRows == [blocks |-> {}, txs |-> {}, graph |-> {}]

\* a line of the claim log: whether it contains the matcher, whether it
\* contains a '{', and the IcxLogData its JSON decodes to, if it decodes
IcxData(claim_tx, amount) ==
    [address |-> "A", amount |-> amount, claim_tx |-> claim_tx,
     order_tx |-> <<"order", claim_tx>>, offer_tx |-> <<"offer", claim_tx>>,
     dfchtlc_tx |-> <<"htlc", claim_tx>>]
LogLine(matcher, brace, data) == [matcher |-> matcher, brace |-> brace, data |-> data]

\* the log of a run of Spec from height s
LogFor(s) ==
    << LogLine(TRUE, TRUE, Some(IcxData(Txid(s, 1), 3))),
       LogLine(TRUE, TRUE, None),
       LogLine(TRUE, TRUE, Some(IcxData(Txid(s + 1, 1), 4))) >>

InitRun ==
    /\ pc = "log"
    /\ quit = FALSE
    /\ icx_data_map = <<>>
    /\ line_no = 1
    /\ iter_end_height = 0
    /\ height = 0
    /\ err = "None"
    /\ hash = None
    /\ block = None
    /\ txi = 0
    /\ store = [blocks |-> {}, txs |-> {}, graph |-> {}, indexes |-> {}]
    /\ open = NoRows
    /\ tx_open = 0
    /\ idx = 0
    /\ result = ""
    /\ sig_at = None
    /\ sig_indexing = FALSE
    /\ loop_exit = "none"
    /\ n_written = 0
    /\ last_written = -1

\* no transaction is under graph inference
GIdle == [step |-> "idle"]

\* the secondary indexes of db::sqlite_create_index_factory
IndexNames == <<"idx_height", "idx_addr">>

\* the configurations of a run of Spec: it starts one height before a
\* checkpoint height; the requested end is before the start or MaxSpan
\* heights on, and the tip of the chain is that end or the height before it
Init ==
    /\ \E s \in {CheckpointEvery - 1} :
       \E e \in {s - 1, s + MaxSpan - 1} :
       \E c \in {[g |-> TRUE, l |-> Some(LogFor(s))], [g |-> FALSE, l |-> None]} :
         args = [start_height |-> s, end_height |-> e, enable_graph_table |-> c.g,
                 defid_log |-> c.l]
    /\ \E tip \in {args.start_height + MaxSpan - 2, args.start_height + MaxSpan - 1} :
         chain = [base |-> args.start_height, blocks |-> <<>>, tip |-> tip]
    /\ InitRun
    /\ prior = None
    /\ gi = GIdle

\* ----------------------------------------------------------- the actions
\* where run() is, as far as the polling of the flag goes: before the loop,
\* about to fetch a height, working on a height, between the last row of a
\* height and the poll at line 281, or past the loop
Phase(p) ==
    CASE p \in {"log", "open"}           -> "setup"
      [] p = "hash"                      -> "before_fetch"
      [] p \in {"block", "parse", "tx"}  -> "in_height"
      [] p \in {"ckpt", "quit"}          -> "rows_written"
      [] OTHER                           -> "after_loop"

\* SIGINT: signal_hook stores true in the flag
Signal ==
    /\ pc # "done"
    /\ quit' = TRUE
    /\ sig_at' = IF sig_at = None THEN Some([phase |-> Phase(pc), height |-> height])
                 ELSE sig_at
    /\ sig_indexing' = (sig_indexing \/ pc = "index")
    /\ UNCHANGED <<env, gi, pc, icx_data_map, line_no, iter_end_height, loopv, err, store,
                   open, tx_open, idx, result, ghost>>

\* line 56: icx_data_map.insert(icx_data.claim_tx.clone(), icx_data)
IcxInsertKeepFirst(map, d) ==
    [k \in DOMAIN map \cup {d.claim_tx} |-> IF k \in DOMAIN map THEN map[k] ELSE d]
IcxInsert(map, d) ==
    [k \in DOMAIN map \cup {d.claim_tx} |-> IF k = d.claim_tx THEN d ELSE map[k]]

\* lines 45..66: one turn of the read_line loop, or the end of the log
ReadLog ==
    /\ pc = "log"
    /\ IF IsSome(args.defid_log) /\ line_no <= Len(Unwrap(args.defid_log))
       THEN LET line == Unwrap(args.defid_log)[line_no]
            IN  /\ icx_data_map' =
                     IF line.matcher /\ line.brace /\ IsSome(line.data)
                     THEN IcxInsert(icx_data_map, Unwrap(line.data))
                     ELSE icx_data_map
                /\ line_no' = line_no + 1
                /\ pc' = "log"
       ELSE /\ pc' = "open"
            /\ UNCHANGED <<icx_data_map, line_no>>
    /\ UNCHANGED <<env, gi, sigv, iter_end_height, loopv, err, store, open, tx_open, idx,
                   result, ghost>>

\* the head of `for height in start_height..=iter_end_height`
LoopToPastEnd(h, end) == IF h <= end + 1 THEN "hash" ELSE "commit"
LoopTo(h, end) == IF h <= end THEN "hash" ELSE "commit"

\* lines 68..83: open the node and the store, resolve the effective end,
\* begin the write transaction, enter the loop
Open ==
    /\ pc = "open"
    /\ iter_end_height' = IF chain.tip < args.end_height THEN chain.tip ELSE args.end_height
    /\ tx_open' = tx_open + 1
    /\ height' = args.start_height
    /\ pc' = LoopTo(args.start_height, iter_end_height')
    /\ loop_exit' = IF pc' = "commit" THEN "exhausted" ELSE loop_exit
    /\ UNCHANGED <<env, gi, sigv, icx_data_map, line_no, hash, block, txi, err, store, open,
                   idx, result, n_written, last_written>>

\* lines 41..80: a `?` before the loop returns its error
SetupFail ==
    /\ pc \in {"log", "open"}
    /\ result' = "Err:setup"
    /\ pc' = "done"
    /\ UNCHANGED <<env, gi, sigv, icx_data_map, line_no, iter_end_height, loopv, err, store,
                   open, tx_open, idx, ghost>>

\* lines 85..86
GetBlockHash ==
    /\ pc = "hash"
    /\ hash' = Some(HashOf(height))
    /\ pc' = "block"
    /\ UNCHANGED <<env, gi, sigv, icx_data_map, line_no, iter_end_height, height, block, txi,
                   err, store, open, tx_open, idx, result, ghost>>

\* lines 87..90
GetBlockHashErr ==
    /\ pc = "hash"
    /\ err' = "get_block_hash"
    /\ pc' = "commit"
    /\ loop_exit' = "fetch"
    /\ UNCHANGED <<env, gi, sigv, icx_data_map, line_no, iter_end_height, loopv, store, open,
                   tx_open, idx, result, n_written, last_written>>

\* lines 92..93: the node serves the block of the height
GetBlock ==
    /\ pc = "block"
    /\ \E shapes \in BlocksUpTo(MaxChainTx - TxCount(chain.blocks)) :
         /\ chain' = [chain EXCEPT !.blocks = Append(@, shapes)]
         /\ block' = Some(MkBlock(height, shapes))
    /\ pc' = "parse"
    /\ UNCHANGED <<args, prior, gi, sigv, icx_data_map, line_no, iter_end_height, height, hash, txi,
                   err, store, open, tx_open, idx, result, ghost>>

\* lines 94..97
GetBlockErr ==
    /\ pc = "block"
    /\ err' = "get_block"
    /\ pc' = "commit"
    /\ loop_exit' = "fetch"
    /\ UNCHANGED <<env, gi, sigv, icx_data_map, line_no, iter_end_height, loopv, store, open,
                   tx_open, idx, result, n_written, last_written>>

\* the row of the blocks table
BlockRow(h, hs, b) == [height |-> h, hash |-> hs, json |-> b]

\* lines 100..108: decode the block, write its row, enter the loop over
\* block.tx
WriteBlock ==
    /\ pc = "parse"
    /\ open' = [open EXCEPT !.blocks = @ \cup {BlockRow(height, Unwrap(hash), Unwrap(block))}]
    /\ n_written' = n_written + 1
    /\ last_written' = height
    /\ txi' = 1
    /\ pc' = IF Len(Unwrap(block).tx) = 0 THEN "ckpt" ELSE "tx"
    /\ UNCHANGED <<env, gi, sigv, icx_data_map, line_no, iter_end_height, height, hash, block,
                   err, store, tx_open, idx, result, loop_exit>>

\* an error of the block row kept for the end of run() instead of returned
WriteBlockFailBreaks ==
    /\ pc = "parse"
    /\ open' = [open EXCEPT !.blocks = @ \cup {BlockRow(height, Unwrap(hash), Unwrap(block))}]
    /\ pc' = "commit"
    /\ loop_exit' = "fetch"
    /\ UNCHANGED <<env, gi, sigv, icx_data_map, line_no, iter_end_height, loopv, err, store,
                   tx_open, idx, result, n_written, last_written>>

\* lines 100..105: `?` on the decoding, the encoding or the insert
WriteBlockFail ==
    /\ pc = "parse"
    /\ result' = "Err:storage"
    /\ pc' = "done"
    /\ UNCHANGED <<env, gi, sigv, icx_data_map, line_no, iter_end_height, loopv, err, store,
                   open, tx_open, idx, ghost>>

\* the transaction rows the connection sees: committed and written
Visible == store.txs \cup open.txs

CurTx == Unwrap(block).tx[txi]

\* lines 108..275: one transaction of the block: its row and its graph rows
ProcessTx ==
    /\ pc = "tx"
    /\ ~TxErr(CurTx, Visible)
    /\ open' = [open EXCEPT
                  !.txs = @ \cup {TxRow(CurTx, height, Visible, icx_data_map)},
                  !.graph = IF args.enable_graph_table
                            THEN @ \cup GraphRows(CurTx, Visible) ELSE @]
    /\ txi' = txi + 1
    /\ pc' = IF txi = Len(Unwrap(block).tx) THEN "ckpt" ELSE "tx"
    /\ UNCHANGED <<env, gi, sigv, icx_data_map, line_no, iter_end_height, height, hash, block,
                   err, store, tx_open, idx, result, ghost>>

\* lines 142..145: ok_or_err()? on a PoolSwap payload without fromToken,
\* toToken or a numeric fromAmount
ProcessTxErr ==
    /\ pc = "tx"
    /\ TxErr(CurTx, Visible)
    /\ result' = "Err:ok_or_err"
    /\ pc' = "done"
    /\ UNCHANGED <<env, gi, sigv, icx_data_map, line_no, iter_end_height, loopv, err, store,
                   open, tx_open, idx, ghost>>

\* an error of the transaction kept for the end of run(), as a fetch error
\* is, instead of returned
ProcessTxFailBreaks ==
    /\ pc = "tx"
    /\ pc' = "commit"
    /\ loop_exit' = "fetch"
    /\ UNCHANGED <<env, gi, sigv, icx_data_map, line_no, iter_end_height, loopv, err, store,
                   open, tx_open, idx, result, n_written, last_written>>

\* lines 109, 172..205, 272: `?` on the input lookup, an encoding or an
\* insert; a failed graph insert leaves the transaction row and the graph
\* rows inserted before it in the open transaction
ProcessTxFail ==
    /\ pc = "tx"
    /\ \/ UNCHANGED open
       \/ /\ ~TxErr(CurTx, Visible)
          /\ args.enable_graph_table
          /\ \E part \in SUBSET GraphRows(CurTx, Visible) :
               /\ part # GraphRows(CurTx, Visible)
               /\ open' = [open EXCEPT
                             !.txs = @ \cup {TxRow(CurTx, height, Visible, icx_data_map)},
                             !.graph = @ \cup part]
    /\ result' = "Err:storage"
    /\ pc' = "done"
    /\ UNCHANGED <<env, gi, sigv, icx_data_map, line_no, iter_end_height, loopv, err, store,
                   tx_open, idx, ghost>>

\* db::sqlite_commit_tx on the rows of the open transaction
Committed(st, op) ==
    [st EXCEPT !.blocks = @ \cup op.blocks, !.txs = @ \cup op.txs,
               !.graph = @ \cup op.graph]

\* line 277
IsCheckpointShifted(h) == (h + 1) % CheckpointEvery = 0
IsCheckpoint(h) == h % CheckpointEvery = 0

\* lines 277..280: sqlite_commit_and_begin_tx at a checkpoint height
Checkpoint ==
    /\ pc = "ckpt"
    /\ IF IsCheckpoint(height)
       THEN /\ store' = Committed(store, open)
            /\ open' = NoRows
            /\ tx_open' = (tx_open - 1) + 1
       ELSE UNCHANGED <<store, open, tx_open>>
    /\ pc' = "quit"
    /\ UNCHANGED <<env, gi, sigv, icx_data_map, line_no, iter_end_height, loopv, err, idx,
                   result, ghost>>

\* line 278: `?` on the commit, or on the begin that follows it
CheckpointFail ==
    /\ pc = "ckpt"
    /\ IsCheckpoint(height)
    /\ \/ UNCHANGED <<store, open, tx_open>>
       \/ /\ store' = Committed(store, open)
          /\ open' = NoRows
          /\ tx_open' = tx_open - 1
    /\ result' = "Err:storage"
    /\ pc' = "done"
    /\ UNCHANGED <<env, gi, sigv, icx_data_map, line_no, iter_end_height, loopv, err, idx,
                   ghost>>

\* line 281: quit.load(Relaxed)
QuitLoadStale == FALSE
QuitLoad == quit

\* lines 281..285: poll the flag, then the next height
QuitCheck ==
    /\ pc = "quit"
    /\ IF QuitLoad
       THEN /\ pc' = "commit"
            /\ loop_exit' = "cancel"
            /\ UNCHANGED height
       ELSE /\ height' = height + 1
            /\ pc' = LoopTo(height + 1, iter_end_height)
            /\ loop_exit' = IF pc' = "commit" THEN "exhausted" ELSE loop_exit
    /\ hash' = None
    /\ block' = None
    /\ txi' = 0
    /\ UNCHANGED <<env, gi, sigv, icx_data_map, line_no, iter_end_height, err, store, open,
                   tx_open, idx, result, n_written, last_written>>

\* the commit of line 288 left out
FinalCommitLost ==
    /\ pc = "commit"
    /\ idx' = 1
    /\ pc' = "index"
    /\ UNCHANGED <<env, gi, sigv, icx_data_map, line_no, iter_end_height, loopv, err, result,
                   ghost, store, open, tx_open>>

\* lines 287..288
FinalCommit ==
    /\ pc = "commit"
    /\ store' = Committed(store, open)
    /\ open' = NoRows
    /\ tx_open' = tx_open - 1
    /\ idx' = 1
    /\ pc' = "index"
    /\ UNCHANGED <<env, gi, sigv, icx_data_map, line_no, iter_end_height, loopv, err, result,
                   ghost>>

\* line 288: `?` on the commit
FinalCommitFail ==
    /\ pc = "commit"
    /\ result' = "Err:storage"
    /\ pc' = "done"
    /\ UNCHANGED <<env, gi, sigv, icx_data_map, line_no, iter_end_height, loopv, err, store,
                   open, tx_open, idx, ghost>>

\* line 291: the index loop goes on to build the next index
BuildsNextUnpolled(q, i) == i <= Len(IndexNames)
BuildsNext(q, i) == ~q /\ i <= Len(IndexNames)

\* lines 290..297: one turn of the index loop
CreateIndex ==
    /\ pc = "index"
    /\ IF BuildsNext(quit, idx)
       THEN /\ store' = [store EXCEPT !.indexes = @ \cup {IndexNames[idx]}]
            /\ idx' = idx + 1
            /\ pc' = "index"
       ELSE /\ pc' = "return"
            /\ UNCHANGED <<store, idx>>
    /\ UNCHANGED <<env, gi, sigv, icx_data_map, line_no, iter_end_height, loopv, err, open,
                   tx_open, result, ghost>>

\* line 296: `?` on the indexer
CreateIndexFail ==
    /\ pc = "index"
    /\ BuildsNext(quit, idx)
    /\ result' = "Err:index"
    /\ pc' = "done"
    /\ UNCHANGED <<env, gi, sigv, icx_data_map, line_no, iter_end_height, loopv, err, store,
                   open, tx_open, idx, ghost>>

\* lines 299..304
ReturnValueOk(e) == "Ok"
ReturnValue(e) == IF e # "None" THEN e ELSE "Ok"

Return ==
    /\ pc = "return"
    /\ result' = ReturnValue(err)
    /\ pc' = "done"
    /\ UNCHANGED <<env, gi, sigv, icx_data_map, line_no, iter_end_height, loopv, err, store,
                   open, tx_open, idx, ghost>>

Next ==
    \/ Signal
    \/ ReadLog
    \/ Open
    \/ SetupFail
    \/ GetBlockHash
    \/ GetBlockHashErr
    \/ GetBlock
    \/ GetBlockErr
    \/ WriteBlock
    \/ WriteBlockFail
    \/ ProcessTx
    \/ ProcessTxErr
    \/ ProcessTxFail
    \/ Checkpoint
    \/ CheckpointFail
    \/ QuitCheck
    \/ FinalCommit
    \/ FinalCommitFail
    \/ CreateIndex
    \/ CreateIndexFail
    \/ Return

Spec == Init /\ [][Next]_vars

\* The process is killed right after the checkpoint commit of line 278 and
\* run() is started again on the same store with start_height one past the
\* checkpoint height: the rows of the open transaction are gone, the
\* committed rows stay.
TerminateAndRerun ==
    /\ pc = "quit"
    /\ height % CheckpointEvery = 0
    /\ prior = None
    /\ prior' = Some(args.start_height)
    /\ args' = [args EXCEPT !.start_height = height + 1]
    /\ pc' = "log"
    /\ quit' = FALSE
    /\ icx_data_map' = <<>>
    /\ line_no' = 1
    /\ iter_end_height' = 0
    /\ height' = 0
    /\ err' = "None"
    /\ hash' = None
    /\ block' = None
    /\ txi' = 0
    /\ open' = NoRows
    /\ tx_open' = 0
    /\ idx' = 0
    /\ result' = ""
    /\ sig_at' = None
    /\ sig_indexing' = FALSE
    /\ loop_exit' = "none"
    /\ n_written' = 0
    /\ last_written' = -1
    /\ UNCHANGED <<chain, store, gi>>

NextRerun == Next \/ TerminateAndRerun

SpecRerun == Init /\ [][NextRerun]_vars

\* ------------------------------------------------ the claim log, any log
\* Lines 45..66 on any log of at most MaxLogLines lines: a line contains
\* the matcher or not, contains a '{' or not, and the text from its first
\* '{' decodes to an IcxLogData or fails to.
MaxLogLines == 3
LogKeys == {Txid(1, 1), Txid(1, 2)}
LogAmounts == {3, 4}
LogLines ==
    {LogLine(m, TRUE, d) :
       m \in BOOLEAN,
       d \in {None} \cup {Some(IcxData(k, a)) : k \in LogKeys, a \in LogAmounts}}
    \cup {LogLine(m, FALSE, None) : m \in BOOLEAN}

InitLog ==
    /\ \E log \in SeqsUpTo(LogLines, MaxLogLines) :
         args = [start_height |-> 0, end_height |-> 0, enable_graph_table |-> FALSE,
                 defid_log |-> Some(log)]
    /\ chain = [base |-> 0, blocks |-> <<>>, tip |-> 0]
    /\ InitRun
    /\ prior = None
    /\ gi = GIdle

\* the reading of the log, until the store is opened or a read fails
NextLog == ReadLog \/ SetupFail

SpecLog == InitLog /\ [][NextLog]_vars

\* ------------------------------------- graph inference, one step at a time
\* Lines 217..273 on the address lists of one transaction, one turn of a
\* loop at a time: tx_in_addrs and tx_out_addrs are any lists of at most
\* MaxAddrs addresses (tx_out_addrs may hold the coinbase marker "x"),
\* dvm_addrs is any list of distinct addresses, empty when tx_in_addrs is
\* (the transaction is then Coinbase and line 130 is not reached).
Addrs == {"A", "B", "C"}
MaxAddrs == 2
GTxid == "tx"

DistinctSeqs(S) ==
    {s \in SeqsUpTo(S, Cardinality(S)) : \A i, j \in 1..Len(s) : i # j => s[i] # s[j]}

\* address lists as (address, value) pairs
WithValue(s) == [i \in 1..Len(s) |-> [addr |-> s[i], value |-> 1]]

\* lines 217..225: the state at the head of the seeding loop, the changeset
\* being cs; seeded and paired keep the changeset as it is at the end of
\* the seeding and of the pairing, fell whether the fallback ran
GStart(ins, outs, dvm, cs) ==
    [step |-> "seed", tx_in |-> ins, tx_out |-> outs, dvm |-> dvm, cs |-> cs,
     todo |-> Pairs(KeepNotIn(outs, {"x"}), ins), dmod |-> FALSE, fell |-> FALSE,
     rows |-> {}, round |-> 1, seeded |-> <<>>, paired |-> <<>>]

\* lines 218..221
GInDvmAll == gi.dvm
GInDvm == KeepIn(gi.dvm, SeqToSet(gi.tx_in))
GOutDvmAll == gi.dvm
GOutDvm == KeepNotIn(gi.dvm, SeqToSet(gi.tx_in))

runv == <<args, chain, pc, quit, icx_data_map, line_no, iter_end_height, height, err,
          hash, block, txi, store, open, tx_open, idx, result, sig_at, sig_indexing,
          loop_exit, n_written, last_written, prior>>

\* the run variables of a specification that does not run the pipeline
RunIdle ==
    /\ args = [start_height |-> 0, end_height |-> 0, enable_graph_table |-> TRUE,
               defid_log |-> None]
    /\ chain = [base |-> 0, blocks |-> <<>>, tip |-> 0]
    /\ InitRun
    /\ prior = None

InitGraph ==
    /\ \E ins \in SeqsUpTo(Addrs, MaxAddrs) :
       \E outs \in SeqsUpTo(Addrs \cup {"x"}, MaxAddrs) :
       \E dvm \in DistinctSeqs(Addrs) :
         /\ ins = <<>> => dvm = <<>>
         /\ gi = GStart(ins, outs, dvm, <<>>)
    /\ RunIdle

\* lines 225..230: one turn of the seeding loops, or their end
GSeedStep ==
    /\ gi.step = "seed"
    /\ gi' = IF gi.todo = <<>>
             THEN [gi EXCEPT !.step = "pair", !.todo = Pairs(GOutDvm, GInDvm),
                             !.dmod = FALSE, !.seeded = gi.cs]
             ELSE [gi EXCEPT !.cs = Seed(@, GTxid, <<Head(gi.todo)>>), !.todo = Tail(@)]
    /\ UNCHANGED runv

\* lines 232..251: one turn of the pairing loops, or their end and the
\* test of the fallback
GPairStep ==
    /\ gi.step = "pair"
    /\ gi' = IF gi.todo = <<>>
             THEN IF RunsFallback(gi.dmod, gi.dvm)
                  THEN [gi EXCEPT !.step = "fallback", !.todo = Pairs(gi.tx_in, GInDvm),
                                  !.fell = TRUE, !.paired = gi.cs]
                  ELSE [gi EXCEPT !.step = "emit", !.paired = gi.cs]
             ELSE LET st == VmPair([cs |-> gi.cs, dmod |-> gi.dmod], GTxid,
                                   <<Head(gi.todo)>>)
                  IN  [gi EXCEPT !.cs = st.cs, !.dmod = st.dmod, !.todo = Tail(@)]
    /\ UNCHANGED runv

\* lines 256..268: one turn of the fallback loops, or their end
GFallbackStep ==
    /\ gi.step = "fallback"
    /\ gi' = IF gi.todo = <<>>
             THEN [gi EXCEPT !.step = "emit"]
             ELSE [gi EXCEPT !.cs = Fallback(@, GTxid, <<Head(gi.todo)>>),
                             !.todo = Tail(@)]
    /\ UNCHANGED runv

\* lines 271..273
GEmit ==
    /\ gi.step = "emit"
    /\ gi' = [gi EXCEPT !.step = "done", !.rows = RowsOf(gi.cs)]
    /\ UNCHANGED runv

NextGraph == GSeedStep \/ GPairStep \/ GFallbackStep \/ GEmit

SpecGraph == InitGraph /\ [][NextGraph]_vars

\* The same steps run a second time on the same address lists, the
\* changeset being the one the first invocation left instead of the empty
\* map of line 223.
GReplay ==
    /\ gi.step = "done"
    /\ gi.round = 1
    /\ gi' = [GStart(gi.tx_in, gi.tx_out, gi.dvm, gi.cs) EXCEPT !.round = 2]
    /\ UNCHANGED runv

NextReplay == NextGraph \/ GReplay

SpecReplay == InitGraph /\ [][NextReplay]_vars

\* ------------------------------------------------------------ the claims
\* the heights that have a row in a table, committed or in the open
\* transaction
WrittenHeights ==
    {r.height : r \in store.blocks \cup open.blocks}
    \cup {r.height : r \in store.txs \cup open.txs}
    \cup {r.txid[1] : r \in store.graph \cup open.graph}

CommittedHeights ==
    {r.height : r \in store.blocks} \cup {r.height : r \in store.txs}
    \cup {r.txid[1] : r \in store.graph}

\* every transaction of the block served for height h has its row, and its
\* graph rows when the graph table is enabled, among the committed rows
HeightCommitted(h) ==
    /\ \E r \in store.blocks : r.height = h
    /\ \A i \in 1..Len(chain.blocks[h - chain.base + 1]) :
         \E r \in store.txs :
           /\ r.txid = Txid(h, i)
           /\ args.enable_graph_table => GraphRows(r.tx, store.txs) \subseteq store.graph

\* SIGINT first arrived after the rows of height h were written and before
\* the poll of line 281 at the end of height h
SigAfterRows(h) == sig_at = Some([phase |-> "rows_written", height |-> h])
\* SIGINT first arrived after the poll at the end of height h and before
\* the fetch of height h + 1 began
SigBeforeFetch(h) == sig_at = Some([phase |-> "before_fetch", height |-> h + 1])

\* what C1 promises of a run cancelled after height h
CancelledAfter(h) ==
    /\ \A w \in WrittenHeights : w <= h
    /\ (pc = "done" /\ result # "Err:storage") =>
         /\ result = "Ok"
         /\ open = NoRows
         /\ \A w \in args.start_height..h : HeightCommitted(w)

\* C1 as stated: a signal raised after height H has been processed and
\* before the fetch of height H+1 begins leaves no row above H, the data
\* through H committed, and run() returning success.
C1_Original ==
    \A h \in args.start_height..iter_end_height :
      (SigAfterRows(h) \/ SigBeforeFetch(h)) => CancelledAfter(h)

\* C1 amended: the flag is polled at the end of a height (line 281).  A
\* signal raised after the rows of height H are written and before that
\* poll leaves no row above H and, unless a commit fails, the data through H
\* committed and run() returning success; a signal raised after the poll
\* and before the fetch of H+1 is seen only at the end of height H+1, whose
\* rows may be written too.
C1_CancelAtPoll ==
    \A h \in args.start_height..iter_end_height :
      /\ SigAfterRows(h) => CancelledAfter(h)
      /\ SigBeforeFetch(h) => \A w \in WrittenHeights : w <= h + 1

C1_Witness ==
    /\ pc = "done"
    /\ result = "Ok"
    /\ SigAfterRows(args.start_height + 1)
    /\ loop_exit = "cancel"
    /\ args.start_height + 1 < iter_end_height
    /\ store.txs # {}

AfterLoop == {"commit", "index", "return", "done"}
AllIndexes == {IndexNames[i] : i \in 1..Len(IndexNames)}

\* C2: a failed get_block_hash or get_block at height h ends the loop (no
\* further fetch, no retry) with no row written for h; the final commit
\* then holds the rows of every height before h, the index loop is entered
\* after it (and builds every index unless the quit flag is set), and only
\* then does run() return the fetch error: whenever the commit and the
\* indexers succeed, the value returned is that error.
C2_FetchError ==
    err # "None" =>
      /\ err \in {"get_block_hash", "get_block"}
      /\ loop_exit = "fetch"
      /\ pc \in AfterLoop
      /\ \A w \in WrittenHeights : w < height
      /\ n_written = height - args.start_height
      /\ pc \in {"index", "return"} =>
           /\ result = ""
           /\ open = NoRows
           /\ \A w \in args.start_height..(height - 1) : HeightCommitted(w)
      /\ pc = "return" => (quit \/ store.indexes = AllIndexes)
      /\ (pc = "done" /\ result \notin {"Err:storage", "Err:index"}) =>
           /\ result = err
           /\ open = NoRows
           /\ \A w \in args.start_height..(height - 1) : HeightCommitted(w)
           /\ quit \/ store.indexes = AllIndexes

C2_Witness ==
    /\ pc = "done"
    /\ result = "get_block"
    /\ height = args.start_height + 2
    /\ store.txs # {}
    /\ store.indexes = AllIndexes

\* C3: on each of the three ways out of the height loop (heights exhausted,
\* cancellation, fetch error) run() commits before it returns: when it has
\* returned and the final commit did not itself fail, no write transaction
\* is open, no row is left uncommitted, and every height written by the
\* run is among the committed rows with all its rows.
C3_CommitOnExit ==
    (pc = "done" /\ loop_exit # "none" /\ result # "Err:storage") =>
      /\ result \in {"Ok", "get_block_hash", "get_block", "Err:index"}
      /\ tx_open = 0
      /\ open = NoRows
      /\ \A k \in 1..n_written : HeightCommitted(args.start_height + k - 1)

C3_Witness ==
    /\ pc = "done"
    /\ loop_exit = "cancel"
    /\ result = "Ok"
    /\ n_written = 2
    /\ store.graph # {}

LoopPcs == {"hash", "block", "parse", "tx", "ckpt", "quit"}

OpenHeights ==
    {r.height : r \in open.blocks} \cup {r.height : r \in open.txs}
    \cup {r.txid[1] : r \in open.graph}

\* the greatest multiple of CheckpointEvery that is at most h
CheckpointFloor(h) == h - (h % CheckpointEvery)

\* the last height whose end-of-height checkpoint test has been passed
LastCompleted == IF pc = "quit" THEN height ELSE height - 1

\* C4: while the height loop runs exactly one write transaction is open,
\* and it holds rows only of heights above the last multiple of
\* CheckpointEvery completed and up to the current height: at most
\* CheckpointEvery heights.
C4_OpenBound ==
    pc \in LoopPcs \cup {"commit"} =>
      /\ tx_open = 1
      /\ \A w \in OpenHeights : CheckpointFloor(LastCompleted) < w /\ w <= height
      /\ height - CheckpointFloor(LastCompleted) <= CheckpointEvery
      /\ Cardinality(OpenHeights) <= CheckpointEvery

C4_Witness ==
    /\ pc = "quit"
    /\ height = CheckpointEvery + 1
    /\ OpenHeights = {CheckpointEvery + 1}
    /\ CommittedHeights = {CheckpointEvery - 1, CheckpointEvery}

\* The rows of one uninterrupted run over the heights lo..hi of the served
\* chain: every transaction is turned into its rows against the transaction
\* rows of the heights and positions before it.
RefTx(acc, h, i) ==
    LET tx == MkTx(chain.blocks[h - chain.base + 1][i], h, i)
    IN  [acc EXCEPT
           !.txs = @ \cup {TxRow(tx, h, acc.txs, icx_data_map)},
           !.graph = IF args.enable_graph_table
                     THEN @ \cup GraphRows(tx, acc.txs) ELSE @]

RECURSIVE RefHeight(_, _, _)
RefHeight(acc, h, i) ==
    IF i > Len(chain.blocks[h - chain.base + 1]) THEN acc
    ELSE RefHeight(RefTx(acc, h, i), h, i + 1)

RECURSIVE RefRun(_, _, _)
RefRun(acc, lo, hi) ==
    IF lo > hi THEN acc
    ELSE LET b == MkBlock(lo, chain.blocks[lo - chain.base + 1])
             withBlock == [acc EXCEPT !.blocks = @ \cup {BlockRow(lo, b.hash, b)}]
         IN  RefRun(RefHeight(withBlock, lo, 1), lo + 1, hi)

FirstStart == IF IsSome(prior) THEN Unwrap(prior) ELSE args.start_height

\* C5: a run that was killed right after the checkpoint commit at height H
\* and started again from H+1 on the same store ends, when it has walked
\* all heights and returned success, with exactly the committed block,
\* transaction and graph rows of one uninterrupted run from the first
\* start height through the final height.
C5_RerunEqual ==
    (pc = "done" /\ result = "Ok" /\ loop_exit = "exhausted") =>
      LET ref == RefRun(NoRows, FirstStart, iter_end_height)
      IN  /\ store.blocks = ref.blocks
          /\ store.txs = ref.txs
          /\ store.graph = ref.graph

C5_Witness ==
    /\ pc = "done"
    /\ result = "Ok"
    /\ loop_exit = "exhausted"
    /\ prior = Some(CheckpointEvery - 1)
    /\ args.start_height = CheckpointEvery + 1
    /\ \E r \in store.txs : r.height = CheckpointEvery + 1 /\ r.tx_in # <<>>
    /\ \E r \in store.graph : r.txid[1] = CheckpointEvery + 1

\* the flag was set before the index loop was entered
SigBeforeIndexing == IsSome(sig_at) /\ Unwrap(sig_at).phase # "after_loop"

\* C6 as stated: after a cancelled load the indexes are built, and only a
\* second interrupt raised during indexing stops the building.
C6_Original ==
    (pc = "done" /\ loop_exit = "cancel" /\ ~sig_indexing
       /\ result \notin {"Err:storage", "Err:index"}) =>
      store.indexes = AllIndexes

\* C6 amended: however the height loop ends, the final commit comes next and
\* the index loop after it; the indexes are built one at a time in the
\* factory's order, each only when the flag is found unset, so no index
\* exists before the final commit.  The flag is never cleared: after a
\* cancelled load, or any interrupt raised before the index loop, no index
\* is built at all, and an interrupt raised during indexing stops the
\* building; with the flag unset every index is built.
C6_Indexing ==
    /\ pc \in LoopPcs \cup {"log", "open", "commit"} => store.indexes = {} /\ idx = 0
    /\ pc \in {"index", "return"} =>
         /\ loop_exit \in {"exhausted", "cancel", "fetch"}
         /\ tx_open = 0 /\ open = NoRows
    /\ store.indexes # {} => tx_open = 0 /\ open = NoRows /\ idx >= 1
    /\ idx >= 1 => store.indexes = {IndexNames[i] : i \in 1..(idx - 1)}
    /\ (loop_exit = "cancel" \/ SigBeforeIndexing) => store.indexes = {}
    /\ (pc \in {"return", "done"} /\ idx >= 1 /\ result # "Err:index" /\ ~quit) =>
         store.indexes = AllIndexes
    /\ (pc \in {"return", "done"} /\ idx >= 1 /\ result # "Err:index"
          /\ store.indexes # AllIndexes) => quit

C6_Witness ==
    /\ pc = "done"
    /\ loop_exit = "cancel"
    /\ result = "Ok"
    /\ ~sig_indexing
    /\ store.blocks # {}
    /\ store.indexes = {}

BlockHeights == {r.height : r \in store.blocks \cup open.blocks}

\* C7: the heights whose block row this run has written are start_height,
\* start_height + 1, ... in that order, each once, without a gap; the loop
\* never works on a height outside start_height..min(end_height, chain
\* tip), and the node is asked for each height at most once.
C7_Contiguous ==
    /\ n_written = 0 => last_written = -1 /\ BlockHeights = {}
    /\ n_written > 0 =>
         /\ last_written = args.start_height + n_written - 1
         /\ BlockHeights = args.start_height..last_written
         /\ Cardinality(store.blocks \cup open.blocks) = n_written
         /\ last_written <= Min(args.end_height, chain.tip)
    /\ pc \in LoopPcs =>
         /\ args.start_height <= height
         /\ height <= Min(args.end_height, chain.tip)
         /\ n_written = height - args.start_height + (IF pc \in {"tx", "ckpt", "quit"} THEN 1 ELSE 0)
         /\ Len(chain.blocks) = height - args.start_height + (IF pc \in {"parse", "tx", "ckpt", "quit"} THEN 1 ELSE 0)
    /\ Len(chain.blocks) <= Min(args.end_height, chain.tip) - args.start_height + 1
         \/ Len(chain.blocks) = 0

C7_Witness ==
    /\ pc = "done"
    /\ result = "Ok"
    /\ loop_exit = "exhausted"
    /\ chain.tip < args.end_height
    /\ n_written = chain.tip - args.start_height + 1
    /\ n_written >= 2

TxRows == store.txs \cup open.txs

\* C8 as stated: a malformed payload never makes run() return an error; it
\* degrades to empty fields and the loop goes on.  run() returns an error
\* only for a fetch failure or a storage failure.
C8_NoAbortOnPayload == result # "Err:ok_or_err"

\* the transaction that run() gave up on
C8_FailingTx ==
    /\ result = "Err:ok_or_err"
    /\ CurTx.vm = VmOf("badswap")
    /\ TxInAddrs(CurTx.vin, Visible) # <<>>
    /\ open.blocks # {}

EmptyClaim(r) == r.icx_claim_data = <<>> /\ r.icx_addr = <<>> /\ r.icx_amt = <<>>
EmptySwap(r) == r.swap_from = <<>> /\ r.swap_to = <<>> /\ r.swap_amt = <<>>

\* C9: every transaction row whose resolved input list is empty has tx-type
\* Coinbase whatever opcode its VM message carries, and no VM address, swap
\* field or claim field.
C9_CoinbasePrecedence ==
    \A r \in TxRows :
      r.tx_in = <<>> =>
        /\ r.tx_type = "Coinbase"
        /\ r.dvm_addrs = <<>>
        /\ EmptySwap(r)
        /\ EmptyClaim(r)

C9_Witness ==
    /\ \E r \in TxRows :
         /\ r.tx_in = <<>> /\ r.tx.vin # <<>>
         /\ r.tx.vm = VmOf("claim")
         /\ r.txid \in DOMAIN icx_data_map
    /\ \E r \in TxRows :
         /\ r.tx_in = <<>>
         /\ r.tx.vm = VmOf("badswap")

HasInputs(r) == r.tx_in # <<>>

\* C10 as stated: a row with a resolved input and no VM message has tx-type
\* Utxo.
C10_Original ==
    \A r \in TxRows : (HasInputs(r) /\ r.tx.vm = None) => r.tx_type = "Utxo"

\* C10 amended: a row with a resolved input and no VM message has tx-type
\* Unknown (line 168); a row with a resolved input and a VM opcode has the
\* tag of that opcode; every row has a tag.
C10_Tag ==
    \A r \in TxRows :
      /\ (HasInputs(r) /\ r.tx.vm = None) => r.tx_type = "Unknown"
      /\ (HasInputs(r) /\ r.tx.vm # None) => r.tx_type = Unwrap(r.tx.vm).txtype
      /\ r.tx_type \in {"Coinbase", "Unknown"} \cup {Unwrap(VmOf(sh)).txtype :
                                                   sh \in {x \in Shapes : VmOf(x) # None}}

C10_Witness ==
    /\ pc = "done"
    /\ result = "Ok"
    /\ \E r \in store.txs : HasInputs(r) /\ r.tx.vm = None /\ r.tx_type = "Unknown"

\* ----------------------------------------------- the claims on the graph
\* the address sets of the transaction under graph inference
GI == SeqToSet(gi.tx_in)
GO == SeqToSet(gi.tx_out) \ {"x"}
GM == SeqToSet(gi.dvm)
GMin == GM \cap GI
GMout == GM \ GI

SeedKeys == {<<i, GTxid, o>> : i \in GI, o \in GO}
VmKeys == {<<o, GTxid, i>> : o \in GMout, i \in GMin}
FallbackKeys == {<<i, GTxid, c>> : i \in GI, c \in GMin}

KeyOf(r) == <<r.in_addr, r.txid, r.out_addr>>
EmittedKeys == {KeyOf(r) : r \in gi.rows}
Level(k) == (CHOOSE r \in gi.rows : KeyOf(r) = k).v
Edge(a, b, v) == [in_addr |-> a, txid |-> GTxid, out_addr |-> b, v |-> v]

\* one step leaves every key of the changeset in it, at a level that is
\* not lower
NeverLowered ==
    \A k \in DOMAIN gi.cs : k \in DOMAIN gi'.cs /\ gi'.cs[k] >= gi.cs[k]

\* C11: the changeset of a transaction is a map over the keys (source,
\* txid, destination), every level in it is 0, 1 or 2, no turn of the
\* seeding, pairing or fallback loops lowers the level of a key already in
\* it, and the rows emitted are one per key, carrying the key's level.
C11_KeyedLevels ==
    /\ [](/\ \A k \in DOMAIN gi.cs : Len(k) = 3 /\ k[2] = GTxid /\ gi.cs[k] \in {0, 1, 2}
          /\ gi.step = "done" =>
               /\ EmittedKeys = DOMAIN gi.cs
               /\ Cardinality(gi.rows) = Cardinality(DOMAIN gi.cs)
               /\ \A r \in gi.rows : r.v = gi.cs[KeyOf(r)])
    /\ [][NeverLowered]_vars

C11_Witness ==
    /\ gi.step = "done"
    /\ gi.fell
    /\ Len(gi.tx_in) > Cardinality(GI)
    /\ \A v \in {0, 2} : \E r \in gi.rows : r.v = v
    /\ Cardinality(gi.rows) >= 2

C12_FailingStep ==
    /\ gi.round = 2
    /\ gi.step = "seed"
    /\ gi.todo # <<>>
    /\ LET k == <<Head(gi.todo)[2], GTxid, Head(gi.todo)[1]>>
       IN  k \in DOMAIN gi.cs /\ gi.cs[k] = 2

C14_Fallback ==
    /\ gi.step \in {"fallback", "emit", "done"} =>
         (gi.fell <=> (gi.paired = gi.seeded /\ GM # {}))
    /\ (gi.step = "done" /\ gi.fell) =>
         /\ \A k \in FallbackKeys :
              /\ k \in EmittedKeys
              /\ Level(k) = IF k \in DOMAIN gi.paired THEN 2 ELSE 1
         /\ \A k \in DOMAIN gi.paired : gi.paired[k] = 0
         /\ EmittedKeys = SeedKeys \cup FallbackKeys
         /\ \A k \in SeedKeys \ FallbackKeys : Level(k) = 0
    /\ (gi.step = "done" /\ ~gi.fell) => gi.cs = gi.paired
    /\ (gi.step = "done" /\ GI = {"A", "B"} /\ GO = {"C"} /\ GM = {"A", "B"}) =>
         gi.rows = {Edge("A", "C", 0), Edge("B", "C", 0), Edge("A", "A", 1),
                    Edge("A", "B", 1), Edge("B", "A", 1), Edge("B", "B", 1)}

C14_Witness ==
    /\ gi.step = "done"
    /\ gi.fell
    /\ gi.tx_in = <<"A", "B">> /\ gi.tx_out = <<"C">> /\ gi.dvm = <<"A", "B">>
    /\ Cardinality(gi.rows) = 6
    /\ Edge("A", "A", 1) \in gi.rows

C20_NoSharedAddress ==
    gi.step = "done" =>
      /\ GM \cap GI = {} => gi.rows = {Edge(i, o, 0) : i \in GI, o \in GO}
      /\ GI = {} => gi.rows = {}

C20_Witness ==
    /\ gi.step = "done"
    /\ GM # {}
    /\ GM \cap GI = {}
    /\ gi.fell
    /\ Cardinality(gi.rows) = 2

\* --------------------------------------------- the claims on the pipeline
ClaimTag == "ICXClaimDFCHTLC"

\* C15: a transaction row tagged ICXClaimDFCHTLC whose txid is a key of
\* icx_data_map carries the four transaction ids, the address and the
\* amount of that entry; a row that is not tagged so, or whose txid is no
\* key, has all claim fields empty; a claim transaction whose txid is no
\* key does not make run() return an error.
C15_ClaimCorrelation ==
    /\ \A r \in TxRows :
         /\ (r.tx_type = ClaimTag /\ r.txid \in DOMAIN icx_data_map) =>
              LET d == icx_data_map[r.txid]
              IN  /\ d.claim_tx = r.txid
                  /\ r.icx_claim_data =
                       Some([order_tx |-> d.order_tx, claim_tx |-> d.claim_tx,
                             offer_tx |-> d.offer_tx, dfchtlc_tx |-> d.dfchtlc_tx])
                  /\ r.icx_addr = Some(d.address)
                  /\ r.icx_amt = Some(d.amount)
         /\ (r.tx_type # ClaimTag \/ r.txid \notin DOMAIN icx_data_map) => EmptyClaim(r)
    /\ (pc = "tx" /\ IsSome(CurTx.vm) /\ Unwrap(CurTx.vm).txtype = ClaimTag) =>
         ~TxErr(CurTx, Visible)

C15_Witness ==
    /\ pc = "done"
    /\ result = "Ok"
    /\ \E r \in store.txs :
         /\ r.tx_type = ClaimTag
         /\ r.txid \in DOMAIN icx_data_map
         /\ r.icx_amt = Some(4)
         /\ r.icx_claim_data # None

\* the rows are those of whole heights: every block row comes with the row
\* of each of its transactions and, when the graph table is enabled, that
\* transaction's graph rows; no transaction or graph row is without its
\* block row
WholeHeights(rows) ==
    /\ \A b \in rows.blocks :
         \A i \in 1..Len(b.json.tx) :
           \E r \in rows.txs :
             /\ r.txid = b.json.tx[i].txid
             /\ r.height = b.height
             /\ args.enable_graph_table => GraphRows(r.tx, rows.txs) \subseteq rows.graph
    /\ \A r \in rows.txs : \E b \in rows.blocks : b.height = r.height
    /\ \A g \in rows.graph : \E r \in rows.txs : r.txid = g.txid

\* C16: the committed rows change only at the checkpoint commit, reached
\* after the last transaction of a height, and at the final commit, and
\* what is committed is always the rows of whole heights: a SIGINT or a
\* fetch error never gets part of a height committed.
C16_CommitAtBoundary ==
    /\ [](/\ WholeHeights(store)
          /\ pc \in {"ckpt", "commit"} => WholeHeights(Committed(store, open)))
    /\ [][<<store.blocks, store.txs, store.graph>>' # <<store.blocks, store.txs, store.graph>>
            => pc \in {"ckpt", "commit"}]_vars

C16_Witness ==
    /\ pc = "done"
    /\ args.enable_graph_table
    /\ IsSome(sig_at) /\ Unwrap(sig_at).phase = "in_height"
    /\ loop_exit = "cancel"
    /\ \E b \in store.blocks :
         /\ b.height = Unwrap(sig_at).height
         /\ Len(b.json.tx) >= 1
    /\ store.graph # {}

\* the lines of the log read so far
LinesRead ==
    IF IsSome(args.defid_log) THEN SubSeq(Unwrap(args.defid_log), 1, line_no - 1)
    ELSE <<>>
\* the line contains the matcher and the text from its first '{' decodes
Qualifies(line) == line.matcher /\ line.brace /\ IsSome(line.data)
\* the positions of the qualifying lines read so far that carry claim_tx k
LinesFor(k) ==
    {i \in 1..Len(LinesRead) :
       Qualifies(LinesRead[i]) /\ Unwrap(LinesRead[i].data).claim_tx = k}
Last(S) == CHOOSE i \in S : \A j \in S : j <= i

\* C17: after any number of lines the map holds, for every claim_tx of a
\* line read that contains the matcher and decodes, the record of the last
\* such line, and nothing else; a line that does not contain the matcher or
\* does not decode leaves the map as it is; the reading goes on to the end
\* of the log whatever the lines are.
C17_LastWriteWins ==
    /\ [](/\ DOMAIN icx_data_map = {k \in LogKeys : LinesFor(k) # {}}
          /\ \A k \in DOMAIN icx_data_map :
               icx_data_map[k] = Unwrap(LinesRead[Last(LinesFor(k))].data)
          /\ pc = "open" => Len(LinesRead) = Len(Unwrap(args.defid_log)))
    /\ [][(pc = "log" /\ line_no <= Len(Unwrap(args.defid_log))
             /\ ~Qualifies(Unwrap(args.defid_log)[line_no]))
            => (icx_data_map' = icx_data_map
                /\ (pc' = "log" => line_no' = line_no + 1))]_vars

C17_Witness ==
    /\ pc = "open"
    /\ Len(LinesRead) = 3
    /\ Qualifies(LinesRead[1])
    /\ LinesRead[2].matcher /\ LinesRead[2].brace /\ ~IsSome(LinesRead[2].data)
    /\ Qualifies(LinesRead[3])
    /\ Unwrap(LinesRead[1].data).claim_tx = Unwrap(LinesRead[3].data).claim_tx
    /\ LinesRead[1].data # LinesRead[3].data
    /\ icx_data_map = [k \in {Unwrap(LinesRead[3].data).claim_tx} |->
                         Unwrap(LinesRead[3].data)]

\* run() returned the error of a write or of an input lookup of the height
\* it was working on: the block row (txi = 0) or a transaction
InLoopFailure ==
    /\ pc = "done"
    /\ result = "Err:storage"
    /\ block # None
    /\ txi <= Len(Unwrap(block).tx)

\* C18: when a write, an encoding or an input lookup of height h fails,
\* run() returns that error at once: the write transaction is still open
\* (no final commit), no index exists, and no row of a height above the
\* last checkpoint height before h, h included, is among the committed rows.
C18_FailFast ==
    InLoopFailure =>
      /\ tx_open = 1
      /\ loop_exit = "none"
      /\ err = "None"
      /\ idx = 0 /\ store.indexes = {}
      /\ \A w \in CommittedHeights : w <= CheckpointFloor(height - 1)
      /\ \A w \in OpenHeights : w > CheckpointFloor(height - 1)
      /\ txi >= 1 => height \in OpenHeights

C18_Witness ==
    /\ InLoopFailure
    /\ height = CheckpointEvery + 1
    /\ txi = 1
    /\ CommittedHeights = {CheckpointEvery - 1, CheckpointEvery}
    /\ \E r \in open.txs : r.height = height
    /\ ~(\E r \in store.blocks : r.height = height)

====
